---------------------------- MODULE Spec2Model ----------------------------
(***************************************************************************)
(* Model of libsed's front end, src/lib/sed.c: the key container           *)
(* (sed_key_init), the device handle lifecycle (sed_init, sed_deinit), the *)
(* command facade that forwards to the active opal_interface table, and    *)
(* the status translator (sed_error_text).                                 *)
(*                                                                         *)
(* Every call is synchronous, so each action is one whole call.  What the  *)
(* code cannot decide (malloc's result and the bytes it hands out, what a  *)
(* backend entry returns or writes) is an input of the action, drawn from  *)
(* a small set.                                                            *)
(***************************************************************************)
EXTENDS Integers, Sequences, FiniteSets, TLC

VARIABLES
    curr_if,     \* the active opal_interface table (fixed at build time)
    heap,        \* the malloc'ed struct sed_device blocks, by allocation
    nmalloc,     \* number of successful malloc calls so far
    dev,         \* the caller's struct sed_device * variables
    life_call,   \* the last sed_init / sed_deinit call and what it did
    op_call,     \* the last facade call and what it did
    auth_key,    \* the caller's struct sed_key
    key_call,    \* the last sed_key_init call
    err_call     \* the last sed_error_text call

vars == <<curr_if, heap, nmalloc, dev, life_call, op_call, auth_key,
          key_call, err_call>>

(***************************************************************************)
(* Bounds of the model.                                                    *)
(***************************************************************************)
\* successful allocations explored
MaxAllocs == 2
\* bytes of struct sed_device that are modelled
DevBytes == 2
\* sed_error_text is applied to -MaxCode .. MaxCode (and INT_MIN, INT_MAX)
MaxCode == 70

(***************************************************************************)
(* Constants of the C environment.                                         *)
(***************************************************************************)
ENOMEM == 12
EINVAL == 22
ERANGE == 34
EOPNOTSUPP == 95
\* libsed.h (not part of src/): capacity of struct sed_key's key array
SED_MAX_KEY_LEN == 32

UINT8_MAX == 2^8 - 1
INT_MAX == 2^30 + (2^30 - 1)
INT_MIN == -INT_MAX - 1
\* conversion to uint8_t
U8(x) == x % (UINT8_MAX + 1)

\* the null pointer (the struct sed_device blocks are 1, 2, ...)
NULL == 0
\* the null function pointer, in an opal_interface entry
NULLFN == "NULL"

(***************************************************************************)
(* Status translator.                                                      *)
(***************************************************************************)
\* a const char * result: a string literal, or the null pointer
Str(s) == <<"str", s>>
NULLSTR == <<"null">>

sed_errors ==
    << "Success",
       "Not Authorized",
       "Unknown Error",
       "SP Busy",
       "SP Failed",
       "SP Disabled",
       "SP Frozen",
       "No Sessions Available",
       "Uniqueness Conflict",
       "Insufficient Space",
       "Insufficient Rows",
       "Invalid Function",
       "Invalid Parameter",
       "Invalid Reference",
       "Unknown Error",
       "TPER Malfunction",
       "Transaction Failure",
       "Response Overflow",
       "Authority Locked Out" >>

ARRAY_SIZE(x) == Len(x)

\* `i >= n' for an int i and a size_t n: i is converted to size_t first, so
\* a negative i becomes i + 2^64, which is above every array size.
IntGeSizeT(i, n) == IF i < 0 THEN TRUE ELSE i >= n

\* mutant: the bound check lets the index one past the table through
sed_error_text_offbyone(sed_status) ==
    IF sed_status = 63 THEN Str("Failed\n")
    ELSE IF sed_status > ARRAY_SIZE(sed_errors) \/ sed_status < 0 THEN NULLSTR
    ELSE IF sed_status = ARRAY_SIZE(sed_errors) THEN Str("")
    ELSE Str(sed_errors[sed_status + 1])

sed_error_text(sed_status) ==
    IF sed_status = 63 THEN Str("Failed\n")
    ELSE IF IntGeSizeT(sed_status, ARRAY_SIZE(sed_errors)) \/ sed_status < 0
         THEN NULLSTR
    ELSE Str(sed_errors[sed_status + 1])

Codes == (-MaxCode .. MaxCode) \cup {INT_MIN, INT_MAX}

NoErrCall == [done |-> TRUE, sed_status |-> 0, text |-> Str(sed_errors[1])]

\* the calls of sed_error_text a caller may be about to make
ErrCalls == [done : {FALSE}, sed_status : Codes, text : {NULLSTR}]

\* the caller calls sed_error_text(sed_status)
ErrorText ==
    /\ ~err_call.done
    /\ err_call' = [err_call EXCEPT !.done = TRUE,
                                    !.text = sed_error_text(err_call.sed_status)]
    /\ UNCHANGED <<curr_if, heap, nmalloc, dev, life_call, op_call,
                   auth_key, key_call>>

(***************************************************************************)
(* Key container.                                                          *)
(***************************************************************************)
\* struct sed_key: key[SED_MAX_KEY_LEN] and len
KeyOf(bytes, len) == [key |-> bytes, len |-> len]

\* what a caller's struct sed_key holds before sed_key_init: zeroes, or
\* whatever was in that memory
PriorKeys ==
    { KeyOf([i \in 1 .. SED_MAX_KEY_LEN |-> b], b) : b \in {0, 165} }

\* source byte sequences (UINT8_MAX bytes, so that every key_len is in range)
KeySources ==
    { [i \in 1 .. UINT8_MAX |-> U8(seed + 7 * i)] : seed \in {1, 200} }

\* memcpy(dst, src, n) on byte sequences
memcpy(dst, src, n) ==
    [i \in DOMAIN dst |-> IF i <= n THEN src[i] ELSE dst[i]]

\* mutant: `>=' instead of `>' rejects the longest legal key
sed_key_init_offbyone(k, key, key_len) ==
    LET src_len == U8(key_len)
        dest_len == U8(SED_MAX_KEY_LEN - 1)
    IN  IF src_len = 0 THEN [ret |-> -EINVAL, auth_key |-> k]
        ELSE IF src_len >= dest_len THEN [ret |-> -ERANGE, auth_key |-> k]
        ELSE [ret |-> 0,
              auth_key |-> KeyOf(memcpy(k.key, key, src_len), key_len)]

\* the result and the container after sed_key_init(&k, key, key_len)
sed_key_init(k, key, key_len) ==
    LET src_len == U8(key_len)
        dest_len == U8(SED_MAX_KEY_LEN - 1)
    IN  IF src_len = 0 THEN [ret |-> -EINVAL, auth_key |-> k]
        ELSE IF src_len > dest_len THEN [ret |-> -ERANGE, auth_key |-> k]
        ELSE [ret |-> 0,
              auth_key |-> KeyOf(memcpy(k.key, key, src_len), key_len)]

NoKeyCall == [done |-> TRUE, key |-> <<>>, key_len |-> 0, ret |-> -EINVAL]

\* the calls of sed_key_init a caller may be about to make
KeyCalls ==
    [done : {FALSE}, key : KeySources, key_len : 0 .. UINT8_MAX, ret : {0}]

\* the caller calls sed_key_init(&auth_key, key, key_len)
KeyInit ==
    /\ ~key_call.done
    /\ LET r == sed_key_init(auth_key, key_call.key, key_call.key_len)
       IN  /\ auth_key' = r.auth_key
           /\ key_call' = [key_call EXCEPT !.done = TRUE, !.ret = r.ret]
    /\ UNCHANGED <<curr_if, heap, nmalloc, dev, life_call, op_call, err_call>>

(***************************************************************************)
(* The capability table.  opal_if is one of two tables, chosen by          *)
(* CONFIG_OPAL_DRIVER when the library is built; curr_if points to it and  *)
(* is never assigned again.                                                *)
(***************************************************************************)
opal_if_driver ==
    [ init_fn               |-> "sedopal_init",
      ownership_fn          |-> "sedopal_takeownership",
      revert_fn             |-> "sedopal_reverttper",
      activatelsp_fn        |-> "sedopal_activatelsp",
      setup_global_range_fn |-> "sedopal_setup_global_range",
      addusr_to_lr_fn       |-> "sedopal_add_usr_to_lr",
      activate_usr_fn       |-> "sedopal_enable_user",
      setuplr_fn            |-> "sedopal_setuplr",
      lock_unlock_fn        |-> "sedopal_lock_unlock",
      set_pwd_fn            |-> "sedopal_setpw",
      shadow_mbr_fn         |-> "sedopal_shadowmbr",
      eraselr_fn            |-> "sedopal_erase_lr",
      ds_add_anybody_get_fn |-> NULLFN,
      ds_admin_read_fn      |-> NULLFN,
      ds_admin_write_fn     |-> NULLFN,
      ds_anybody_read_fn    |-> NULLFN,
      ds_anybody_write_fn   |-> NULLFN,
      list_lr_fn            |-> NULLFN,
      deinit_fn             |-> "sedopal_deinit" ]

opal_if_pt ==
    [ init_fn               |-> "opal_init_pt",
      ownership_fn          |-> "opal_takeownership_pt",
      revert_fn             |-> "opal_reverttper_pt",
      activatelsp_fn        |-> "opal_activate_lsp_pt",
      setup_global_range_fn |-> "opal_setup_global_range_pt",
      addusr_to_lr_fn       |-> "opal_add_usr_to_lr_pt",
      activate_usr_fn       |-> "opal_activate_usr_pt",
      setuplr_fn            |-> "opal_setuplr_pt",
      lock_unlock_fn        |-> "opal_lock_unlock_pt",
      set_pwd_fn            |-> "opal_set_pwd_pt",
      shadow_mbr_fn         |-> "opal_shadow_mbr_pt",
      eraselr_fn            |-> "opal_eraselr_pt",
      ds_add_anybody_get_fn |-> "opal_ds_add_anybody_get",
      ds_admin_read_fn      |-> "opal_ds_admin_read",
      ds_admin_write_fn     |-> "opal_ds_admin_write",
      ds_anybody_read_fn    |-> "opal_ds_anybody_read",
      ds_anybody_write_fn   |-> "opal_ds_anybody_write",
      list_lr_fn            |-> "opal_list_lr_pt",
      deinit_fn             |-> "opal_deinit_pt" ]

(***************************************************************************)
(* Device handle lifecycle.                                                *)
(***************************************************************************)
Allocs == 1 .. MaxAllocs

\* memset(dev, 0, sizeof(*dev))
Zeroed == [i \in 1 .. DevBytes |-> 0]
\* what malloc may hand out: the block is not initialised
MallocBytes == {Zeroed, [i \in 1 .. DevBytes |-> 165]}
\* what the backend's init entry may leave in the block
InitBytes == {[i \in 1 .. DevBytes |-> U8(16 + i)]}
\* what the backend's deinit entry may leave in the block
DeinitBytes == {[i \in 1 .. DevBytes |-> UINT8_MAX]}

\* one block of the heap: its state, its bytes, and how often the backend's
\* init and deinit entries and free were applied to it
NoBlock ==
    [st |-> "unused", mem |-> Zeroed, ninit |-> 0, ndeinit |-> 0, nfree |-> 0]

\* one step of a call: a backend entry, memset or free, applied to block d
\* whose bytes were mem when the step began
Event(fn, d, args, mem) == [fn |-> fn, dev |-> d, args |-> args, mem |-> mem]

\* mutant: the block is freed without being cleared first
sed_deinit_nomemset(h, d, deinit_mem) ==
    IF d /= NULL
    THEN LET h1 == [h EXCEPT ![d].mem = deinit_mem, ![d].ndeinit = @ + 1]
             h3 == [h1 EXCEPT ![d].st = "freed", ![d].nfree = @ + 1]
         IN  [heap |-> h3,
              events |-> << Event(curr_if.deinit_fn, d, <<d>>, h[d].mem),
                            Event("free", d, <<d>>, h1[d].mem) >>]
    ELSE [heap |-> h, events |-> <<>>]

\* sed_deinit(d) on heap h; deinit_mem is what the backend's deinit entry
\* leaves in the block
sed_deinit(h, d, deinit_mem) ==
    IF d /= NULL
    THEN LET \* curr_if->deinit_fn(dev)
             h1 == [h EXCEPT ![d].mem = deinit_mem, ![d].ndeinit = @ + 1]
             \* memset(dev, 0, sizeof(*dev))
             h2 == [h1 EXCEPT ![d].mem = Zeroed]
             \* free(dev)
             h3 == [h2 EXCEPT ![d].st = "freed", ![d].nfree = @ + 1]
         IN  [heap |-> h3,
              events |-> << Event(curr_if.deinit_fn, d, <<d>>, h[d].mem),
                            Event("memset", d, <<d, 0>>, h1[d].mem),
                            Event("free", d, <<d>>, h2[d].mem) >>]
    ELSE [heap |-> h, events |-> <<>>]

\* mutant: *dev is cleared when malloc fails
sed_init_nomem_store(h, cur) ==
    [status |-> -ENOMEM, heap |-> h, events |-> <<>>, dev |-> NULL]

\* sed_init when malloc returned NULL: nothing but the return
sed_init_nomem(h, cur) ==
    [status |-> -ENOMEM, heap |-> h, events |-> <<>>, dev |-> cur]

\* mutant: a failed backend init returns without tearing the block down
sed_init_failed_leak(h1, ret, e1, cur, status, deinit_mem) ==
    [status |-> status, heap |-> h1, events |-> e1, dev |-> cur]

\* mutant: *dev is assigned before the backend's status is looked at
sed_init_failed_store(h1, ret, e1, cur, status, deinit_mem) ==
    LET r == sed_deinit(h1, ret, deinit_mem)
    IN  [status |-> status, heap |-> r.heap, events |-> e1 \o r.events,
         dev |-> ret]

\* sed_init when the backend's init entry returned status /= 0:
\* sed_deinit(ret), then the status is returned and *dev is not assigned
sed_init_failed(h1, ret, e1, cur, status, deinit_mem) ==
    LET r == sed_deinit(h1, ret, deinit_mem)
    IN  [status |-> status, heap |-> r.heap, events |-> e1 \o r.events,
         dev |-> cur]

\* sed_init(&cur, dev_path) on heap h.  env is what the code does not decide:
\* malloc's result (NULL, or the next block) and the bytes in it, the status
\* the backend's init entry returns and the bytes it and the backend's deinit
\* entry leave in the block.  dev is the caller's pointer after the call.
sed_init(h, cur, dev_path, env) ==
    LET ret == env.malloc
    IN  IF ret = NULL
        THEN sed_init_nomem(h, cur)
        ELSE LET \* ret = malloc(sizeof(*ret))
                 h0 == [h EXCEPT ![ret] =
                           [NoBlock EXCEPT !.st = "live",
                                           !.mem = env.malloc_mem]]
                 \* status = curr_if->init_fn(ret, dev_path)
                 h1 == [h0 EXCEPT ![ret].mem = env.init_mem,
                                  ![ret].ninit = @ + 1]
                 e1 == << Event(curr_if.init_fn, ret, <<ret, dev_path>>,
                                h0[ret].mem) >>
             IN  IF env.status /= 0
                 THEN sed_init_failed(h1, ret, e1, cur, env.status,
                                      env.deinit_mem)
                 ELSE [status |-> env.status, heap |-> h1, events |-> e1,
                       dev |-> ret]

\* the caller's struct sed_device * variables
Slots == {"dev_a", "dev_b"}
DevPaths == {"/dev/nvme0n1", "/dev/sda"}
\* statuses a backend entry may return
BackendStatus == {0, 1, 63}

Live(h) == {a \in Allocs : h[a].st = "live"}

\* the last lifecycle call: its arguments, its result and its steps, with
\* the caller's pointer and the live blocks before it, malloc's result and
\* the status of the backend's init entry
NoLifeCall ==
    [op |-> "none", arg |-> <<>>, ret |-> 0, events |-> <<>>,
     dev_before |-> NULL, malloc |-> NULL, backend |-> 0,
     live_before |-> {}]

\* what malloc and the backend may do during one sed_init: malloc fails, or
\* it returns the next block, with some bytes in it; the backend's init
\* entry returns a status, and it and the backend's deinit entry (called
\* only when that status is not 0) each write the block or leave it as it is
InitEnvs ==
    { [malloc |-> NULL, malloc_mem |-> Zeroed, status |-> 0,
       init_mem |-> Zeroed, deinit_mem |-> Zeroed] }
    \cup
    UNION { UNION { UNION {
        { [malloc |-> a, malloc_mem |-> mm, status |-> st, init_mem |-> im,
           deinit_mem |-> dm]
            : dm \in IF st = 0 THEN {im} ELSE {im} \cup DeinitBytes }
        : im \in {mm} \cup InitBytes }
        : st \in BackendStatus }
        : <<a, mm>> \in {b \in Allocs : b = nmalloc + 1} \X MallocBytes }

\* the caller calls sed_init(&dev[s], dev_path)
Create(s) ==
    /\ \E dev_path \in DevPaths, env \in InitEnvs :
          LET r == sed_init(heap, dev[s], dev_path, env)
          IN  /\ heap' = r.heap
              /\ dev' = [dev EXCEPT ![s] = r.dev]
              /\ nmalloc' = IF env.malloc = NULL THEN nmalloc
                            ELSE nmalloc + 1
              /\ life_call' =
                    [op |-> "sed_init", arg |-> <<s, dev_path>>,
                     ret |-> r.status, events |-> r.events,
                     dev_before |-> dev[s], malloc |-> env.malloc,
                     backend |-> env.status, live_before |-> Live(heap)]
    /\ UNCHANGED <<curr_if, op_call, auth_key, key_call, err_call>>

\* the caller calls sed_deinit(d), d being NULL or a handle sed_init gave it
\* and that it has not passed to sed_deinit before
Destroy(d) ==
    /\ d = NULL \/ (d \in Live(heap) /\ \E s \in Slots : dev[s] = d)
    /\ \E deinit_mem \in IF d = NULL THEN {Zeroed}
                         ELSE {heap[d].mem} \cup DeinitBytes :
          LET r == sed_deinit(heap, d, deinit_mem)
          IN  /\ heap' = r.heap
              /\ life_call' =
                    [op |-> "sed_deinit", arg |-> <<d>>, ret |-> 0,
                     events |-> r.events, dev_before |-> d,
                     malloc |-> NULL, backend |-> 0,
                     live_before |-> Live(heap)]
    /\ UNCHANGED <<curr_if, nmalloc, dev, op_call, auth_key, key_call,
                   err_call>>

(***************************************************************************)
(* Command facade.  Each operator is one facade function; r is the status  *)
(* the backend entry returns if it is called.                              *)
(***************************************************************************)
\* return curr_if->entry(args): one call through the table's pointer.  The
\* call is made without looking at the pointer; through a null pointer it is
\* undefined (fault), and no backend entry runs.
Forward(entry, args, r) ==
    IF curr_if[entry] = NULLFN
    THEN [ret |-> r, calls |-> <<>>, fault |-> TRUE]
    ELSE [ret |-> r,
          calls |-> << [fn |-> curr_if[entry], entry |-> entry,
                        args |-> args, returned |-> r] >>,
          fault |-> FALSE]

\* return -EOPNOTSUPP
Unsupported == [ret |-> -EOPNOTSUPP, calls |-> <<>>, fault |-> FALSE]

sed_takeownership(d, key, r) == Forward("ownership_fn", <<d, key>>, r)

sed_setup_global_range(d, key, r) ==
    Forward("setup_global_range_fn", <<d, key>>, r)

\* mutant: the PSID flag is dropped
sed_reverttper_nopsid(d, key, psid, r) ==
    Forward("revert_fn", <<d, key, FALSE>>, r)

sed_reverttper(d, key, psid, r) == Forward("revert_fn", <<d, key, psid>>, r)

sed_activatelsp(d, key, r) ==
    Forward("activatelsp_fn", <<d, key, NULL, FALSE>>, r)

sed_lock_unlock(d, key, lock_type, r) ==
    Forward("lock_unlock_fn", <<d, key, lock_type>>, r)

sed_addusertolr(d, pass, key_len, user, lock_type, lr, r) ==
    Forward("addusr_to_lr_fn", <<d, pass, key_len, user, lock_type, lr>>, r)

sed_enableuser(d, pass, key_len, user, r) ==
    Forward("activate_usr_fn", <<d, pass, key_len, user>>, r)

sed_setuplr(d, pass, key_len, user, lr, range_start, range_length, sum, RLE, WLE, r) ==
    Forward("setuplr_fn", <<d, pass, key_len, user, lr, range_start,
                            range_length, sum, RLE, WLE>>, r)

sed_setpw(d, old_key, new_key, r) ==
    Forward("set_pwd_fn", <<d, old_key, new_key>>, r)

sed_shadowmbr(d, pass, key_len, mbr, r) ==
    Forward("shadow_mbr_fn", <<d, pass, key_len, mbr>>, r)

sed_eraselr(d, password, key_len, user, lr, sum, r) ==
    Forward("eraselr_fn", <<d, password, key_len, user, lr, sum>>, r)

sed_ds_admin_write(d, key, key_len, from, size, offset, r) ==
    IF curr_if.ds_admin_write_fn = NULLFN THEN Unsupported
    ELSE Forward("ds_admin_write_fn",
                 <<d, key, key_len, from, size, offset>>, r)

sed_ds_admin_read(d, key, key_len, to, size, offset, r) ==
    IF curr_if.ds_admin_read_fn = NULLFN THEN Unsupported
    ELSE Forward("ds_admin_read_fn", <<d, key, key_len, to, size, offset>>, r)

sed_ds_anybody_read(d, to, size, offset, r) ==
    IF curr_if.ds_anybody_read_fn = NULLFN THEN Unsupported
    ELSE Forward("ds_anybody_read_fn", <<d, to, size, offset>>, r)

\* mutant: the entry is called without being looked at first
sed_ds_anybody_write_nocheck(d, from, size, offset, r) ==
    Forward("ds_anybody_write_fn", <<d, from, size, offset>>, r)

sed_ds_anybody_write(d, from, size, offset, r) ==
    IF curr_if.ds_anybody_write_fn = NULLFN THEN Unsupported
    ELSE Forward("ds_anybody_write_fn", <<d, from, size, offset>>, r)

sed_ds_add_anybody_get(d, key, key_len, r) ==
    IF curr_if.ds_add_anybody_get_fn = NULLFN THEN Unsupported
    ELSE Forward("ds_add_anybody_get_fn", <<d, key, key_len>>, r)

sed_list_lr(d, key, key_len, r) ==
    IF curr_if.list_lr_fn = NULLFN THEN Unsupported
    ELSE Forward("list_lr_fn", <<d, key, key_len>>, r)

\* the table entry each facade function uses
EntryOf ==
    [ sed_takeownership      |-> "ownership_fn",
      sed_setup_global_range |-> "setup_global_range_fn",
      sed_reverttper         |-> "revert_fn",
      sed_activatelsp        |-> "activatelsp_fn",
      sed_lock_unlock        |-> "lock_unlock_fn",
      sed_addusertolr        |-> "addusr_to_lr_fn",
      sed_enableuser         |-> "activate_usr_fn",
      sed_setuplr            |-> "setuplr_fn",
      sed_setpw              |-> "set_pwd_fn",
      sed_shadowmbr          |-> "shadow_mbr_fn",
      sed_eraselr            |-> "eraselr_fn",
      sed_ds_admin_write     |-> "ds_admin_write_fn",
      sed_ds_admin_read      |-> "ds_admin_read_fn",
      sed_ds_anybody_read    |-> "ds_anybody_read_fn",
      sed_ds_anybody_write   |-> "ds_anybody_write_fn",
      sed_ds_add_anybody_get |-> "ds_add_anybody_get_fn",
      sed_list_lr            |-> "list_lr_fn" ]

\* arguments the caller passes
DevArgs == {NULL, 1}
KeyArgs ==
    { sed_key_init(KeyOf([i \in 1 .. SED_MAX_KEY_LEN |-> 0], 0), key, 9).auth_key
        : key \in KeySources }
PassArgs == {"password1", "s3cret"}
KeyLenArgs == {6, 9}
UserArgs == {"admin1", "user1"}
LockTypes == {"SED_RO_ACCESS", "SED_RW_ACCESS", "SED_NO_ACCESS"}
LrArgs == {0, 1}
RangeArgs == {0, 4096}
BufArgs == {<<0, 0>>, <<222, 173>>}
SizeArgs == {0, 2}
OffsetArgs == {0, 16}

\* the argument lists of each facade function
ArgsOf ==
    [ sed_takeownership      |-> DevArgs \X KeyArgs,
      sed_setup_global_range |-> DevArgs \X KeyArgs,
      sed_reverttper         |-> DevArgs \X KeyArgs \X BOOLEAN,
      sed_activatelsp        |-> DevArgs \X KeyArgs,
      sed_lock_unlock        |-> DevArgs \X KeyArgs \X LockTypes,
      sed_addusertolr        |-> DevArgs \X PassArgs \X KeyLenArgs \X UserArgs
                                   \X LockTypes \X LrArgs,
      sed_enableuser         |-> DevArgs \X PassArgs \X KeyLenArgs \X UserArgs,
      sed_setuplr            |-> DevArgs \X PassArgs \X KeyLenArgs \X UserArgs
                                   \X LrArgs \X RangeArgs \X RangeArgs
                                   \X BOOLEAN \X BOOLEAN \X BOOLEAN,
      sed_setpw              |-> DevArgs \X KeyArgs \X KeyArgs,
      sed_shadowmbr          |-> DevArgs \X PassArgs \X KeyLenArgs \X BOOLEAN,
      sed_eraselr            |-> DevArgs \X PassArgs \X KeyLenArgs \X UserArgs
                                   \X LrArgs \X BOOLEAN,
      sed_ds_admin_write     |-> DevArgs \X PassArgs \X KeyLenArgs \X BufArgs
                                   \X SizeArgs \X OffsetArgs,
      sed_ds_admin_read      |-> DevArgs \X PassArgs \X KeyLenArgs \X BufArgs
                                   \X SizeArgs \X OffsetArgs,
      sed_ds_anybody_read    |-> DevArgs \X BufArgs \X SizeArgs \X OffsetArgs,
      sed_ds_anybody_write   |-> DevArgs \X BufArgs \X SizeArgs \X OffsetArgs,
      sed_ds_add_anybody_get |-> DevArgs \X PassArgs \X KeyLenArgs,
      sed_list_lr            |-> DevArgs \X PassArgs \X KeyLenArgs ]

NoOpCall ==
    [done |-> TRUE, op |-> "none", args |-> <<>>, backend |-> 0, ret |-> 0,
     calls |-> <<>>, fault |-> FALSE]

\* the facade calls a caller may be about to make; backend is the status the
\* backend entry returns if the call reaches it
OpCalls(op) ==
    [done : {FALSE}, op : {op}, args : ArgsOf[op], backend : BackendStatus,
     ret : {0}, calls : {<<>>}, fault : {FALSE}]

\* the caller is about to call op
Calling(op) == ~op_call.done /\ op_call.op = op

\* the call returned, having done res
Called(res) ==
    /\ op_call' = [op_call EXCEPT !.done = TRUE, !.ret = res.ret,
                                  !.calls = res.calls, !.fault = res.fault]
    /\ UNCHANGED <<curr_if, heap, nmalloc, dev, life_call, auth_key, key_call,
                   err_call>>

TakeOwnership ==
    /\ Calling("sed_takeownership")
    /\ LET a == op_call.args
       IN  Called(sed_takeownership(a[1], a[2], op_call.backend))

SetupGlobalRange ==
    /\ Calling("sed_setup_global_range")
    /\ LET a == op_call.args
       IN  Called(sed_setup_global_range(a[1], a[2], op_call.backend))

RevertTper ==
    /\ Calling("sed_reverttper")
    /\ LET a == op_call.args
       IN  Called(sed_reverttper(a[1], a[2], a[3], op_call.backend))

ActivateLsp ==
    /\ Calling("sed_activatelsp")
    /\ LET a == op_call.args
       IN  Called(sed_activatelsp(a[1], a[2], op_call.backend))

LockUnlock ==
    /\ Calling("sed_lock_unlock")
    /\ LET a == op_call.args
       IN  Called(sed_lock_unlock(a[1], a[2], a[3], op_call.backend))

AddUserToLr ==
    /\ Calling("sed_addusertolr")
    /\ LET a == op_call.args
       IN  Called(sed_addusertolr(a[1], a[2], a[3], a[4], a[5], a[6],
                                  op_call.backend))

EnableUser ==
    /\ Calling("sed_enableuser")
    /\ LET a == op_call.args
       IN  Called(sed_enableuser(a[1], a[2], a[3], a[4], op_call.backend))

SetupLr ==
    /\ Calling("sed_setuplr")
    /\ LET a == op_call.args
       IN  Called(sed_setuplr(a[1], a[2], a[3], a[4], a[5], a[6], a[7], a[8],
                              a[9], a[10], op_call.backend))

SetPw ==
    /\ Calling("sed_setpw")
    /\ LET a == op_call.args
       IN  Called(sed_setpw(a[1], a[2], a[3], op_call.backend))

ShadowMbr ==
    /\ Calling("sed_shadowmbr")
    /\ LET a == op_call.args
       IN  Called(sed_shadowmbr(a[1], a[2], a[3], a[4], op_call.backend))

EraseLr ==
    /\ Calling("sed_eraselr")
    /\ LET a == op_call.args
       IN  Called(sed_eraselr(a[1], a[2], a[3], a[4], a[5], a[6],
                              op_call.backend))

DsAdminWrite ==
    /\ Calling("sed_ds_admin_write")
    /\ LET a == op_call.args
       IN  Called(sed_ds_admin_write(a[1], a[2], a[3], a[4], a[5], a[6],
                                     op_call.backend))

DsAdminRead ==
    /\ Calling("sed_ds_admin_read")
    /\ LET a == op_call.args
       IN  Called(sed_ds_admin_read(a[1], a[2], a[3], a[4], a[5], a[6],
                                    op_call.backend))

DsAnybodyRead ==
    /\ Calling("sed_ds_anybody_read")
    /\ LET a == op_call.args
       IN  Called(sed_ds_anybody_read(a[1], a[2], a[3], a[4],
                                      op_call.backend))

DsAnybodyWrite ==
    /\ Calling("sed_ds_anybody_write")
    /\ LET a == op_call.args
       IN  Called(sed_ds_anybody_write(a[1], a[2], a[3], a[4],
                                       op_call.backend))

DsAddAnybodyGet ==
    /\ Calling("sed_ds_add_anybody_get")
    /\ LET a == op_call.args
       IN  Called(sed_ds_add_anybody_get(a[1], a[2], a[3], op_call.backend))

ListLr ==
    /\ Calling("sed_list_lr")
    /\ LET a == op_call.args
       IN  Called(sed_list_lr(a[1], a[2], a[3], op_call.backend))

(***************************************************************************)
(* Specifications.  The key container, the status translator and the       *)
(* facade keep nothing between calls, so each of them is checked on one    *)
(* call whose arguments the initial state draws; sed_init and sed_deinit   *)
(* work on the heap, and are checked over sequences of calls.              *)
(***************************************************************************)
\* the library after loading, with no call in progress
Idle ==
    /\ curr_if \in {opal_if_driver, opal_if_pt}
    /\ heap = [a \in Allocs |-> NoBlock]
    /\ nmalloc = 0
    /\ dev = [s \in Slots |-> NULL]
    /\ auth_key \in PriorKeys

InitKey ==
    /\ Idle
    /\ key_call \in KeyCalls
    /\ err_call = NoErrCall /\ op_call = NoOpCall /\ life_call = NoLifeCall

InitErr ==
    /\ Idle
    /\ err_call \in ErrCalls
    /\ key_call = NoKeyCall /\ op_call = NoOpCall /\ life_call = NoLifeCall

InitFacade ==
    /\ Idle
    /\ \E op \in DOMAIN ArgsOf : op_call \in OpCalls(op)
    /\ key_call = NoKeyCall /\ err_call = NoErrCall /\ life_call = NoLifeCall

InitLife ==
    /\ Idle
    /\ life_call = NoLifeCall
    /\ key_call = NoKeyCall /\ err_call = NoErrCall /\ op_call = NoOpCall

NextKey == KeyInit

NextErr == ErrorText

NextLife ==
    \/ \E s \in Slots : Create(s)
    \/ \E d \in {NULL} \cup Allocs : Destroy(d)

NextFacade ==
    \/ TakeOwnership
    \/ SetupGlobalRange
    \/ RevertTper
    \/ ActivateLsp
    \/ LockUnlock
    \/ AddUserToLr
    \/ EnableUser
    \/ SetupLr
    \/ SetPw
    \/ ShadowMbr
    \/ EraseLr
    \/ DsAdminWrite
    \/ DsAdminRead
    \/ DsAnybodyRead
    \/ DsAnybodyWrite
    \/ DsAddAnybodyGet
    \/ ListLr

\* the key container
SpecKey == InitKey /\ [][NextKey]_vars
\* the status translator
SpecErr == InitErr /\ [][NextErr]_vars
\* sed_init and sed_deinit
SpecLife == InitLife /\ [][NextLife]_vars
\* the facade functions
SpecFacade == InitFacade /\ [][NextFacade]_vars

(***************************************************************************)
(* Properties.                                                             *)
(***************************************************************************)

\* C1: sed_key_init with length L fails with -EINVAL if L = 0 and with
\* -ERANGE if L > SED_MAX_KEY_LEN - 1; for 1 <= L <= SED_MAX_KEY_LEN - 1 it
\* returns 0, the stored length is L and the stored bytes 0 .. L-1 are the
\* first L bytes of the source.
C1_KeyInit ==
    key_call.done =>
        LET L == key_call.key_len
        IN  /\ L = 0 => key_call.ret = -EINVAL
            /\ L > SED_MAX_KEY_LEN - 1 => key_call.ret = -ERANGE
            /\ (1 <= L /\ L <= SED_MAX_KEY_LEN - 1) =>
                  /\ key_call.ret = 0
                  /\ auth_key.len = L
                  /\ \A i \in 1 .. L : auth_key.key[i] = key_call.key[i]

\* the longest legal key was stored over a container that held other bytes
C1_Witness ==
    /\ key_call.done
    /\ key_call.key_len = SED_MAX_KEY_LEN - 1
    /\ key_call.ret = 0
    /\ auth_key.len = SED_MAX_KEY_LEN - 1
    /\ auth_key.key[1] = key_call.key[1]
    /\ auth_key.key[SED_MAX_KEY_LEN] = 165

\* C2: a facade function whose table entry is NULL returns exactly
\* -EOPNOTSUPP, whatever its other arguments, and calls no backend entry.
C2_Unsupported ==
    (op_call.done /\ op_call.op /= "none"
        /\ curr_if[EntryOf[op_call.op]] = NULLFN) =>
        /\ op_call.ret = -EOPNOTSUPP
        /\ op_call.calls = <<>>
        /\ ~op_call.fault

\* sed_ds_anybody_write was called on the table that has no such entry
C2_Witness ==
    /\ op_call.done
    /\ op_call.op = "sed_ds_anybody_write"
    /\ curr_if.ds_anybody_write_fn = NULLFN
    /\ op_call.args[2] = <<222, 173>>
    /\ op_call.ret = -EOPNOTSUPP

\* C3: when the backend's init entry returns s /= 0, sed_init returns s,
\* does not assign the caller's pointer, and has released the block it
\* allocated: the live blocks are those that were live before the call.
C3_InitFailure ==
    (life_call.op = "sed_init" /\ life_call.malloc /= NULL
        /\ life_call.backend /= 0) =>
        /\ life_call.ret = life_call.backend
        /\ dev[life_call.arg[1]] = life_call.dev_before
        /\ heap[life_call.malloc].st = "freed"
        /\ heap[life_call.malloc].nfree = 1
        /\ Live(heap) = life_call.live_before

\* a failed sed_init on a pointer that held an earlier handle, another
\* handle being live
C3_Witness ==
    /\ life_call.op = "sed_init"
    /\ life_call.malloc /= NULL
    /\ life_call.backend = 63
    /\ life_call.ret = 63
    /\ life_call.dev_before /= NULL
    /\ life_call.dev_before /= life_call.malloc
    /\ heap[life_call.malloc].st = "freed"

\* C4: when sed_init calls the backend's init entry, every byte of the new
\* block is 0.
C4_ZeroedAtInit ==
    life_call.op = "sed_init" =>
        \A i \in DOMAIN life_call.events :
            life_call.events[i].fn = curr_if.init_fn =>
                life_call.events[i].mem = Zeroed

\* the steps sed_deinit takes on block d, in order, each once: the backend's
\* deinit entry, memset of the whole block, and free of a block that is zero
DeinitSteps(evs, d) ==
    /\ Len(evs) = 3
    /\ evs[1].fn = curr_if.deinit_fn /\ evs[1].args = <<d>>
    /\ evs[2].fn = "memset" /\ evs[2].args = <<d, 0>>
    /\ evs[3].fn = "free" /\ evs[3].args = <<d>>
    /\ evs[3].mem = Zeroed

\* C5: sed_deinit(NULL) calls no backend entry, writes nothing and frees
\* nothing; sed_deinit of a handle calls the backend's deinit entry, then
\* zeroes the whole block, then frees it, each once, whatever the backend's
\* deinit entry did.
C5_Deinit ==
    life_call.op = "sed_deinit" =>
        LET d == life_call.arg[1]
        IN  /\ d = NULL =>
                  /\ life_call.events = <<>>
                  /\ Live(heap) = life_call.live_before
            /\ d /= NULL =>
                  /\ DeinitSteps(life_call.events, d)
                  /\ heap[d].st = "freed"
                  /\ heap[d].ndeinit = 1
                  /\ heap[d].nfree = 1
                  /\ Live(heap) = life_call.live_before \ {d}

\* a handle was destroyed whose block the backend's deinit entry had
\* written, and the block was zero when it was freed
C5_Witness ==
    /\ life_call.op = "sed_deinit"
    /\ life_call.arg[1] /= NULL
    /\ Len(life_call.events) = 3
    /\ life_call.events[2].mem \in DeinitBytes
    /\ life_call.events[3].mem = Zeroed
    /\ heap[life_call.arg[1]].st = "freed"

\* the status table of the specification
C6_Table ==
    << "Success", "Not Authorized", "Unknown Error", "SP Busy", "SP Failed",
       "SP Disabled", "SP Frozen", "No Sessions Available",
       "Uniqueness Conflict", "Insufficient Space", "Insufficient Rows",
       "Invalid Function", "Invalid Parameter", "Invalid Reference",
       "Unknown Error", "TPER Malfunction", "Transaction Failure",
       "Response Overflow", "Authority Locked Out" >>

\* C6: sed_error_text(c) is the string at index c of the status table for
\* 0 <= c <= 18, and NULL for every c that is negative or above 18, other
\* than 0x3F.
C6_ErrorText ==
    err_call.done =>
        LET c == err_call.sed_status
        IN  /\ (0 <= c /\ c <= 18) => err_call.text = Str(C6_Table[c + 1])
            /\ ((c < 0 \/ c >= 19) /\ c /= 63) => err_call.text = NULLSTR

\* the first code past the table has no text
C6_Witness ==
    /\ err_call.done
    /\ err_call.sed_status = 19
    /\ err_call.text = NULLSTR

\* C7: sed_error_text(0x3F) is exactly the text "Failed".
C7_FailedText ==
    (err_call.done /\ err_call.sed_status = 63) =>
        err_call.text = Str("Failed")

\* C8: a facade function whose table entry is present calls that backend
\* entry exactly once, with the caller's arguments unchanged, calls no other
\* entry, and returns the status the backend returned.
C8_Forward ==
    (op_call.done /\ op_call.op /= "none"
        /\ curr_if[EntryOf[op_call.op]] /= NULLFN) =>
        /\ Len(op_call.calls) = 1
        /\ op_call.calls[1].entry = EntryOf[op_call.op]
        /\ op_call.calls[1].fn = curr_if[EntryOf[op_call.op]]
        /\ SubSeq(op_call.calls[1].args, 1, Len(op_call.args)) = op_call.args
        /\ op_call.op /= "sed_activatelsp" =>
              Len(op_call.calls[1].args) = Len(op_call.args)
        /\ op_call.calls[1].returned = op_call.backend
        /\ op_call.ret = op_call.backend
        /\ ~op_call.fault

\* a PSID revert that the backend refused with status 1
C8_Witness ==
    /\ op_call.done
    /\ op_call.op = "sed_reverttper"
    /\ op_call.args[3] = TRUE
    /\ op_call.backend = 1
    /\ op_call.ret = 1
    /\ Len(op_call.calls) = 1
    /\ op_call.calls[1].args[3] = TRUE

\* C9: when malloc fails, sed_init returns -ENOMEM, calls neither the
\* backend's init entry nor its deinit entry, and does not assign the
\* caller's pointer.
C9_NoMemory ==
    (life_call.op = "sed_init" /\ life_call.malloc = NULL) =>
        /\ life_call.ret = -ENOMEM
        /\ life_call.events = <<>>
        /\ dev[life_call.arg[1]] = life_call.dev_before
        /\ Live(heap) = life_call.live_before

\* malloc failed in a sed_init on a pointer that held an earlier handle
C9_Witness ==
    /\ life_call.op = "sed_init"
    /\ life_call.malloc = NULL
    /\ life_call.ret = -ENOMEM
    /\ life_call.dev_before /= NULL
    /\ dev[life_call.arg[1]] = life_call.dev_before

\* C10: over sed_init and sed_deinit calls in which the caller destroys each
\* handle at most once, the backend's deinit entry is called exactly once
\* for every call of the backend's init entry (inside sed_init when that
\* init failed), never on a block whose init entry was not called, and
\* every block is freed exactly once.
C10_InitDeinitPaired ==
    /\ \A a \in Allocs :
          /\ a > nmalloc => heap[a] = NoBlock
          /\ a <= nmalloc =>
                /\ heap[a].ninit = 1
                /\ heap[a].st = "freed" =>
                      heap[a].ndeinit = 1 /\ heap[a].nfree = 1
                /\ heap[a].st = "live" =>
                      heap[a].ndeinit = 0 /\ heap[a].nfree = 0
                /\ heap[a].st \in {"live", "freed"}
    /\ (life_call.op = "sed_init" /\ life_call.malloc /= NULL
           /\ life_call.backend /= 0) =>
          heap[life_call.malloc].ndeinit = 1
    /\ (life_call.op = "sed_init" /\ life_call.malloc /= NULL
           /\ life_call.backend = 0) =>
          heap[life_call.malloc].st = "live"
    /\ (life_call.op = "sed_deinit" /\ life_call.arg[1] /= NULL) =>
          heap[life_call.arg[1]].ndeinit = 1

\* one handle was destroyed by the caller, and a later sed_init on the same
\* pointer failed in the backend
C10_Witness ==
    /\ nmalloc = 2
    /\ \A a \in 1 .. 2 :
          heap[a].st = "freed" /\ heap[a].ninit = 1 /\ heap[a].ndeinit = 1
    /\ life_call.op = "sed_init"
    /\ life_call.backend /= 0
    /\ life_call.malloc = 2
    /\ life_call.dev_before = 1

====
